---------------------------- MODULE Spec2Model ----------------------------
(***************************************************************************)
(* Model of src/src/main.rs: generate_large_csv and main.                  *)
(*                                                                         *)
(* u64 values (size_gb, target_size_bytes) are kept at their real width as *)
(* four little-endian 16-bit limbs so that the multiplications of line 17  *)
(* overflow exactly where the 64-bit ones do.  File sizes are plain        *)
(* integers in bytes.  A name is represented by its length in bytes, a     *)
(* name table by the sequence of the lengths of its entries.               *)
(*                                                                         *)
(* The byte stream handed to the csv writer is kept run-length encoded     *)
(* (stream); the writer's buffer is the stream range wbuf = <<from, to>>   *)
(* not yet handed to the file; the file's content is the sequence of       *)
(* stream ranges that were written to it (disk).                           *)
(***************************************************************************)
EXTENDS Integers, Sequences, FiniteSets, TLC

\* ---------------------------------------------------------------- bounds
MaxBatches    == 10          \* batches explored before the model stops
MaxFileBytes  == 2000000000  \* largest file size the model represents
MaxFailRows   == 120         \* rows of each batch whose write may fail
PartialWrite  == 5           \* bytes a failing write may leave behind
SoloNameLen   == 4           \* "Solo"
MediumNameLen == 53620       \* two batches of such rows pass 1 GiB
HugeNameLen   == 107307      \* one batch of such rows passes 1 GiB

\* ------------------------------------------------------ program constants
BATCH_SIZE     == 10000
PROGRESS_EVERY == 100000
KIB            == 1024
HashLen        == 32
IdHexLen       == 64
AgeLen         == 2
AgeMin         == 18
AgeMax         == 60
AsciiZero      == 48
U8Mod          == 256
LimbBase       == 65536
BufCapacity    == 8192

\* ------------------------------------------------------------ u64 values
Zero64 == <<0, 0, 0, 0>>

\* a natural number below 2^31 as a u64
FromNat(n) == <<n % LimbBase, (n \div LimbBase) % LimbBase, 0, 0>>

\* x < y on u64
Less(x, y) ==
    \E k \in 1..4 : x[k] < y[k] /\ \A j \in (k+1)..4 : x[j] = y[j]

\* x * m on u64 (m < 2^15): the wrapped product and the carry out of bit 63
MulSmall(x, m) ==
    LET p1 == x[1] * m
        p2 == x[2] * m + (p1 \div LimbBase)
        p3 == x[3] * m + (p2 \div LimbBase)
        p4 == x[4] * m + (p3 \div LimbBase)
    IN [val   |-> <<p1 % LimbBase, p2 % LimbBase, p3 % LimbBase, p4 % LimbBase>>,
        carry |-> p4 \div LimbBase]

\* x / m on u64 (m < 2^15): quotient and remainder
DivSmall(x, m) ==
    LET c4 == x[4]
        c3 == (c4 % m) * LimbBase + x[3]
        c2 == (c3 % m) * LimbBase + x[2]
        c1 == (c2 % m) * LimbBase + x[1]
    IN [quo |-> <<c1 \div m, c2 \div m, c3 \div m, c4 \div m>>,
        rem |-> c1 % m]

\* line 17: size_gb * 1024 * 1024 * 1024, three u64 multiplications
TargetOf(gb) ==
    LET m1 == MulSmall(gb, KIB)
        m2 == MulSmall(m1.val, KIB)
        m3 == MulSmall(m2.val, KIB)
    IN [val      |-> m3.val,
        overflow |-> m1.carry # 0 \/ m2.carry # 0 \/ m3.carry # 0]

\* ---------------------------------------------------------- csv records
RECURSIVE SumSeq(_)
SumSeq(s) == IF s = <<>> THEN 0 ELSE Head(s) + SumSeq(Tail(s))

\* bytes of one record: the fields, a comma between them, a line feed
RecordLen(fields) == SumSeq(fields) + (Len(fields) - 1) + 1

HeaderFields == <<2, 4, 3>>          \* "id", "name", "age"
HeaderLen    == RecordLen(HeaderFields)
RowLen(name) == RecordLen(<<IdHexLen, name, AgeLen>>)

\* hex::encode_to_slice: fails unless the output is twice the input
HexEncodeToSlice(inLen, outLen) ==
    IF outLen = 2 * inLen THEN "ok" ELSE "InvalidStringLength"

\* names.choose(&mut rng).unwrap_or(&""): the names that can be drawn
ChooseName(tbl) ==
    IF tbl = <<>> THEN {0} ELSE {tbl[j] : j \in DOMAIN tbl}

AgeRange == AgeMin..AgeMax

AgeBytesSwapped(a) ==
    <<((a % 10) + AsciiZero) % U8Mod, ((a \div 10) + AsciiZero) % U8Mod>>

\* lines 56-58: the two u8 digits of the age
AgeBytes(a) ==
    <<((a \div 10) + AsciiZero) % U8Mod, ((a % 10) + AsciiZero) % U8Mod>>

\* ------------------------------------------------- stream, buffer, file
\* the stream after one more record of the given kind and length
AppendRecord(s, kind, len) ==
    IF s # <<>> /\ s[Len(s)].kind = kind /\ s[Len(s)].len = len
    THEN [s EXCEPT ![Len(s)].n = @ + 1]
    ELSE Append(s, [kind |-> kind, len |-> len, n |-> 1])

\* the file after the stream range [from, to) is written at its end
AppendDisk(d, from, to) ==
    IF from = to THEN d
    ELSE IF d # <<>> /\ d[Len(d)][2] = from
         THEN [d EXCEPT ![Len(d)][2] = to]
         ELSE Append(d, <<from, to>>)

RECURSIVE DiskSize(_)
\* path.metadata()?.len()
DiskSize(d) ==
    IF d = <<>> THEN 0 ELSE (Head(d)[2] - Head(d)[1]) + DiskSize(Tail(d))

\* does writing n more bytes fill the buffer and force a write to the file
Spills(w, n) == (w[2] - w[1]) + n > BufCapacity

\* bytes handed to the file when n bytes are written through the buffer:
\* whole buffers, the rest stays buffered
SpillTo(w, n) ==
    IF Spills(w, n)
    THEN w[1] + (((w[2] - w[1]) + n - 1) \div BufCapacity) * BufCapacity
    ELSE w[1]

FlushedBufKept(w) == w

\* writer.flush(): nothing stays in the buffer
FlushedBuf(w) == <<w[2], w[2]>>

\* ------------------------------------------------------------- control
LoopContinuesInclusive(len, target) == ~ Less(target, len)

LoopContinuesKib(len, target) == Less(len, DivSmall(target, KIB).quo)

\* line 34: the while condition
LoopContinues(len, target) == Less(len, target)

BatchDoneEarly(k) == k = BATCH_SIZE - 1

\* line 37: the for loop over 0..BATCH_SIZE is exhausted
BatchDone(k) == k = BATCH_SIZE

NextRowCountTwice(rc) == rc + 2

\* line 62
NextRowCount(rc) == rc + 1

ErrPcRetry == "check"

\* where the ? operator leaves the function: its locals are dropped
ErrPc == "unwind"

Outcomes == {"ok", "fail"}

\* ---------------------------------------------------------------- inputs
SizeGbInputs ==
    { FromNat(0), FromNat(1), FromNat(10), <<0, 0, 4, 0>>, <<1, 0, 4, 0>> }

NameTables == { <<SoloNameLen>>, <<MediumNameLen>>, <<HugeNameLen>> }

RowNameTables == NameTables \cup { <<>>, <<3, 4, 5, 6>> }

VARIABLES
    pc,                 \* position in generate_large_csv / main
    size_gb,            \* argument, u64
    names,              \* argument
    target_size_bytes,  \* line 17
    exists,             \* the file at path exists
    disk,               \* its content, as stream ranges
    writer,             \* the csv writer is alive
    wbuf,               \* stream range held in the writer's buffer
    stream,             \* records handed to the writer, run-length encoded
    row_count,          \* line 31
    i,                  \* line 37, index in the batch
    result,             \* "none", "Ok", "Err"
    summary,            \* completion summaries printed (lines 76-80)
    errors,             \* error lines printed by main (line 101)
    progress,           \* progress lines printed (line 71)
    io_failed,          \* some operation on the file has failed
    name,               \* line 52
    age_val,            \* line 55
    age_bytes           \* line 56

vars == <<pc, size_gb, names, target_size_bytes, exists, disk, writer, wbuf,
          stream, row_count, i, result, summary, errors, progress,
          io_failed, name, age_val, age_bytes>>

rowVars == <<name, age_val, age_bytes>>
outVars == <<summary, errors, progress>>
argVars == <<size_gb, names>>

InitWith(p, tables) ==
    /\ pc = p
    /\ size_gb \in SizeGbInputs
    /\ names \in tables
    /\ target_size_bytes = Zero64
    /\ exists = FALSE
    /\ disk = <<>>
    /\ writer = FALSE
    /\ wbuf = <<0, 0>>
    /\ stream = <<>>
    /\ row_count = 0
    /\ i = 0
    /\ result = "none"
    /\ summary = 0
    /\ errors = 0
    /\ progress = 0
    /\ io_failed = FALSE
    /\ name = 0
    /\ age_val = 0
    /\ age_bytes = <<0, 0>>

Init == InitWith("start", NameTables)

\* the model stops here: the next batch is beyond its bounds
InBounds ==
    /\ row_count < MaxBatches * BATCH_SIZE
    /\ \A n \in ChooseName(names) :
          DiskSize(disk) <= MaxFileBytes - BATCH_SIZE * RowLen(n)

\* a step returns Err through the ? operator
Fail ==
    /\ result' = "Err"
    /\ pc' = ErrPc

\* the outcome of an operation on the file
Io(o) == io_failed' = (io_failed \/ o = "fail")

\* line 17; an overflowing multiplication panics when the build checks
\* overflow and wraps when it does not
ComputeTarget ==
    /\ pc = "start"
    /\ UNCHANGED io_failed
    /\ LET t == TargetOf(size_gb) IN
         \E checks \in BOOLEAN :
            IF t.overflow /\ checks
            THEN /\ pc' = "panicked"
                 /\ UNCHANGED target_size_bytes
            ELSE /\ pc' = "create"
                 /\ target_size_bytes' = t.val
    /\ UNCHANGED <<argVars, exists, disk, writer, wbuf, stream, row_count, i,
                   result, outVars, rowVars>>

\* lines 24-25: File::create truncates; the writer starts empty
CreateFile(o) ==
    /\ pc = "create"
    /\ Io(o)
    /\ IF o = "ok"
       THEN /\ exists' = TRUE
            /\ disk' = <<>>
            /\ writer' = TRUE
            /\ wbuf' = <<0, 0>>
            /\ pc' = "header"
            /\ UNCHANGED result
       ELSE /\ Fail
            /\ UNCHANGED <<exists, disk, writer, wbuf>>
    /\ UNCHANGED <<argVars, target_size_bytes, stream, row_count, i,
                   outVars, rowVars>>

\* writer.write_record of one record of n bytes: it goes to the buffer, and
\* full buffers go to the file; a failing write to the file leaves p bytes
\* of the buffer in the file and the buffer full
WriteRecord(kind, n, o, p) ==
    IF o = "ok" \/ ~ Spills(wbuf, n)
    THEN /\ disk' = AppendDisk(disk, wbuf[1], SpillTo(wbuf, n))
         /\ wbuf' = <<SpillTo(wbuf, n), wbuf[2] + n>>
         /\ stream' = AppendRecord(stream, kind, n)
    ELSE /\ disk' = AppendDisk(disk, wbuf[1], wbuf[1] + p)
         /\ wbuf' = <<wbuf[1], wbuf[1] + BufCapacity>>
         /\ stream' = AppendRecord(stream, "torn",
                                   BufCapacity - (wbuf[2] - wbuf[1]))

WriteHeaderSkipped ==
    /\ pc = "header"
    /\ UNCHANGED io_failed
    /\ pc' = "check"
    /\ row_count' = 0
    /\ UNCHANGED <<argVars, target_size_bytes, exists, disk, wbuf, stream,
                   writer, i, result, outVars, rowVars>>

\* lines 28-31: the header record, the rng, row_count = 0
WriteHeader ==
    /\ pc = "header"
    /\ UNCHANGED io_failed
    /\ WriteRecord("header", HeaderLen, "ok", 0)
    /\ row_count' = 0
    /\ pc' = "check"
    /\ UNCHANGED <<argVars, target_size_bytes, exists, writer, i, result,
                   outVars, rowVars>>

\* line 34: the size query and the while condition
LoopCheck(o) ==
    /\ pc = "check"
    /\ Io(o)
    /\ IF o = "ok"
       THEN /\ pc' = IF LoopContinues(FromNat(DiskSize(disk)), target_size_bytes)
                     THEN IF InBounds THEN "row" ELSE "capped"
                     ELSE "final"
            /\ i' = 0
            /\ UNCHANGED result
       ELSE /\ Fail
            /\ UNCHANGED i
    /\ UNCHANGED <<argVars, target_size_bytes, exists, disk, writer, wbuf,
                   stream, row_count, outVars, rowVars>>

\* lines 37-63: one row of the batch
GenRow(o, p) ==
    /\ pc = "row"
    /\ \E n \in ChooseName(names) :
         IF HexEncodeToSlice(HashLen, IdHexLen) # "ok"
         THEN /\ Fail
              /\ UNCHANGED <<disk, wbuf, stream, row_count, i, io_failed>>
         ELSE /\ WriteRecord("row", RowLen(n), o, p)
              /\ IF o = "ok" \/ ~ Spills(wbuf, RowLen(n))
                 THEN /\ row_count' = NextRowCount(row_count)
                      /\ i' = i + 1
                      /\ pc' = IF BatchDone(i + 1) THEN "flush" ELSE "row"
                      /\ UNCHANGED <<result, io_failed>>
                 ELSE /\ i < MaxFailRows
                      /\ Fail
                      /\ io_failed' = TRUE
                      /\ UNCHANGED <<row_count, i>>
    /\ UNCHANGED <<argVars, target_size_bytes, exists, writer, outVars, rowVars>>

\* line 66: writer.flush()
Flush(o, p) ==
    /\ pc = "flush"
    /\ Io(o)
    /\ IF o = "ok"
       THEN /\ disk' = AppendDisk(disk, wbuf[1], wbuf[2])
            /\ wbuf' = FlushedBuf(wbuf)
            /\ pc' = "progress"
            /\ UNCHANGED result
       ELSE /\ p <= wbuf[2] - wbuf[1]
            /\ disk' = AppendDisk(disk, wbuf[1], wbuf[1] + p)
            /\ Fail
            /\ UNCHANGED wbuf
    /\ UNCHANGED <<argVars, target_size_bytes, exists, writer, stream,
                   row_count, i, outVars, rowVars>>

\* lines 69-72: the progress line and its size query
Progress(o) ==
    /\ pc = "progress"
    /\ Io(o)
    /\ IF row_count % PROGRESS_EVERY = 0
       THEN IF o = "ok"
            THEN /\ progress' = progress + 1
                 /\ pc' = "check"
                 /\ UNCHANGED result
            ELSE /\ Fail
                 /\ UNCHANGED progress
       ELSE /\ o = "ok"
            /\ pc' = "check"
            /\ UNCHANGED <<result, progress>>
    /\ UNCHANGED <<argVars, target_size_bytes, exists, disk, writer, wbuf,
                   stream, row_count, i, summary, errors, rowVars>>

\* lines 75-82: the final size query, the summary, Ok(())
Finish(o) ==
    /\ pc = "final"
    /\ Io(o)
    /\ IF o = "ok"
       THEN /\ summary' = summary + 1
            /\ result' = "Ok"
            /\ pc' = "unwind"
       ELSE /\ Fail
            /\ UNCHANGED summary
    /\ UNCHANGED <<argVars, target_size_bytes, exists, disk, writer, wbuf,
                   stream, row_count, i, errors, progress, rowVars>>

\* the function returns (line 83, or a ? above): the writer is dropped, and
\* its destructor flushes what it holds and ignores the outcome
DropWriter(o, p) ==
    /\ pc = "unwind"
    /\ Io(o)
    /\ IF writer
       THEN IF o = "ok"
            THEN /\ disk' = AppendDisk(disk, wbuf[1], wbuf[2])
                 /\ wbuf' = <<wbuf[2], wbuf[2]>>
            ELSE /\ wbuf[2] > wbuf[1]
                 /\ p <= wbuf[2] - wbuf[1]
                 /\ disk' = AppendDisk(disk, wbuf[1], wbuf[1] + p)
                 /\ UNCHANGED wbuf
       ELSE /\ o = "ok"
            /\ p = 0
            /\ UNCHANGED <<disk, wbuf>>
    /\ writer' = FALSE
    /\ pc' = "main"
    /\ UNCHANGED <<argVars, target_size_bytes, exists, stream, row_count, i,
                   result, outVars, rowVars>>

\* lines 100-102: main prints the error, if any
MainReport ==
    /\ pc = "main"
    /\ UNCHANGED io_failed
    /\ errors' = IF result = "Err" THEN errors + 1 ELSE errors
    /\ pc' = "exit"
    /\ UNCHANGED <<argVars, target_size_bytes, exists, disk, writer, wbuf,
                   stream, row_count, i, result, summary, progress, rowVars>>

Partials == {0, PartialWrite}

Next ==
    \/ ComputeTarget
    \/ \E o \in Outcomes : CreateFile(o)
    \/ WriteHeader
    \/ \E o \in Outcomes : LoopCheck(o)
    \/ \E o \in Outcomes, p \in Partials : GenRow(o, p)
    \/ \E o \in Outcomes, p \in Partials : Flush(o, p)
    \/ \E o \in Outcomes : Progress(o)
    \/ \E o \in Outcomes : Finish(o)
    \/ \E o \in Outcomes, p \in Partials : DropWriter(o, p)
    \/ MainReport

Spec == Init /\ [][Next]_vars

\* the run in which no step fails
NextOk ==
    \/ ComputeTarget
    \/ CreateFile("ok")
    \/ WriteHeader
    \/ LoopCheck("ok")
    \/ GenRow("ok", 0)
    \/ Flush("ok", 0)
    \/ Progress("ok")
    \/ Finish("ok")
    \/ DropWriter("ok", 0)
    \/ MainReport

LiveSpec == Init /\ [][NextOk]_vars /\ WF_vars(NextOk)


\* ------------------------------------------------- the row generator alone
InitRow == InitWith("r_id", RowNameTables)

\* lines 39-49: 32 random bytes, their SHA-256, its hex encoding
HashAndEncode ==
    /\ pc = "r_id"
    /\ UNCHANGED io_failed
    /\ IF HexEncodeToSlice(HashLen, IdHexLen) = "ok"
       THEN pc' = "r_name" /\ UNCHANGED result
       ELSE Fail
    /\ UNCHANGED <<argVars, target_size_bytes, exists, disk, writer, wbuf,
                   stream, row_count, i, outVars, rowVars>>

\* line 52
ChooseNameStep ==
    /\ pc = "r_name"
    /\ UNCHANGED io_failed
    /\ name' \in ChooseName(names)
    /\ pc' = "r_age"
    /\ UNCHANGED <<argVars, target_size_bytes, exists, disk, writer, wbuf,
                   stream, row_count, i, result, outVars, age_val, age_bytes>>

\* line 55
DrawAge ==
    /\ pc = "r_age"
    /\ UNCHANGED io_failed
    /\ age_val' \in AgeRange
    /\ pc' = "r_render"
    /\ UNCHANGED <<argVars, target_size_bytes, exists, disk, writer, wbuf,
                   stream, row_count, i, result, outVars, name, age_bytes>>

\* lines 56-58
RenderAge ==
    /\ pc = "r_render"
    /\ UNCHANGED io_failed
    /\ age_bytes' = AgeBytes(age_val)
    /\ pc' = "r_done"
    /\ UNCHANGED <<argVars, target_size_bytes, exists, disk, writer, wbuf,
                   stream, row_count, i, result, outVars, name, age_val>>

NextRow == HashAndEncode \/ ChooseNameStep \/ DrawAge \/ RenderAge

RowSpec == InitRow /\ [][NextRow]_vars

\* ------------------------------------------------------------ observations
\* a u64 below 2^32 as a number
ToNat(x) == x[1] + x[2] * LimbBase

FileSize == DiskSize(disk)

\* the file holds the first FileSize bytes of the stream, in order
DiskIsPrefix == disk = <<>> \/ (Len(disk) = 1 /\ disk[1][1] = 0)

RECURSIVE CountKind(_, _, _)
\* complete records of a kind among the first d bytes of the stream s
CountKind(s, kind, d) ==
    IF s = <<>> THEN 0
    ELSE LET r == Head(s) IN
         IF d >= r.len * r.n
         THEN (IF r.kind = kind THEN r.n ELSE 0)
              + CountKind(Tail(s), kind, d - r.len * r.n)
         ELSE IF r.kind = kind THEN d \div r.len ELSE 0

RECURSIVE OnBoundary(_, _)
\* the first d bytes of the stream s end at the end of a record
OnBoundary(s, d) ==
    IF d = 0 THEN TRUE
    ELSE IF s = <<>> THEN FALSE
    ELSE LET r == Head(s) IN
         IF d >= r.len * r.n THEN OnBoundary(Tail(s), d - r.len * r.n)
         ELSE d % r.len = 0

\* every header record handed to the writer, whether on disk yet or not
HeadersWritten ==
    LET H == {k \in DOMAIN stream : stream[k].kind = "header"}
    IN SumSeq([k \in DOMAIN stream |->
                  IF k \in H THEN stream[k].n ELSE 0])

\* the file starts with the one header record, data rows only after it
BeginsWithHeader ==
    /\ DiskIsPrefix
    /\ stream # <<>>
    /\ stream[1].kind = "header"
    /\ HeadersWritten = 1
    /\ FileSize >= stream[1].len

\* the file d2 is the file d with bytes added at its end
Extends(d, d2) ==
    \/ d = <<>>
    \/ /\ Len(d) <= Len(d2)
       /\ \A k \in 1..(Len(d) - 1) : d2[k] = d[k]
       /\ d2[Len(d)][1] = d[Len(d)][1]
       /\ d2[Len(d)][2] >= d[Len(d)][2]

IsDigit(b) == b >= AsciiZero /\ b <= AsciiZero + 9

BatchBytes == CHOOSE b \in {BATCH_SIZE * RowLen(n) : n \in ChooseName(names)} : TRUE

\* ------------------------------------------------------------------ claims

\* C1: whenever the batch loop is left on the non-error path, and whenever
\* generate_large_csv has returned Ok, the size of the file on disk is at
\* least target_size_bytes.
C1_SizeReachesTarget ==
    (pc = "final" \/ result = "Ok")
        => ~ Less(FromNat(FileSize), target_size_bytes)

C1_Witness ==
    result = "Ok" /\ target_size_bytes # Zero64 /\ row_count = 2 * BATCH_SIZE

\* C2: on successful completion the overshoot, final file size minus
\* target size, is strictly less than the bytes of one batch of BATCH_SIZE
\* rows, also when the first batch is the last one and the header reaches
\* the file together with it.
C2_OvershootBound ==
    result = "Ok"
        => /\ target_size_bytes[3] = 0 /\ target_size_bytes[4] = 0
           /\ FileSize - ToNat(target_size_bytes) < BatchBytes

C2_Witness ==
    /\ result = "Ok"
    /\ row_count = BATCH_SIZE
    /\ target_size_bytes # Zero64
    /\ FileSize = HeaderLen + BatchBytes

\* C3 as stated: a successful run never ends with fewer rows than one full
\* batch, whatever the target, a target of 0 included.
C3_AtLeastOneBatch ==
    (pc = "final" \/ result = "Ok") => row_count >= BATCH_SIZE

\* C3 amended: for every target above 0 at least one full batch is written
\* before the loop can exit; with a target of 0 the first size check already
\* fails, no row is written and the run succeeds with row_count = 0.
C3_BatchUnlessZeroTarget ==
    (pc = "final" \/ result = "Ok")
        => IF target_size_bytes = Zero64
           THEN row_count = 0
           ELSE row_count >= BATCH_SIZE

C3_Witness ==
    result = "Ok" /\ target_size_bytes = Zero64 /\ row_count = 0 /\ pc = "exit"

\* C4: on successful completion row_count equals the number of data rows in
\* the file: every line of the file other than the header line is a whole
\* row that was counted, and every counted row is in the file.
C4_RowCountMatchesFile ==
    result = "Ok"
        => /\ DiskIsPrefix
           /\ FileSize <= HeaderLen \/ OnBoundary(stream, FileSize)
           /\ CountKind(stream, "row", FileSize) = row_count
           /\ CountKind(stream, "row", wbuf[2]) = row_count

C4_Witness ==
    /\ result = "Ok"
    /\ row_count = 2 * BATCH_SIZE
    /\ CountKind(stream, "row", FileSize) = 2 * BATCH_SIZE

C6_AbortOnFirstError ==
    [][ result' = "Err"
          => /\ row_count' = row_count
             /\ pc' \in {"unwind", "main", "exit"}
             /\ exists' = exists
             /\ Extends(disk, disk')
             /\ CountKind(stream', "row", wbuf'[2])
                    = CountKind(stream, "row", wbuf[2])
             /\ summary' = 0
             /\ errors' <= 1
             /\ (pc' = "exit" => errors' = 1) ]_vars

C6_Witness ==
    pc = "exit" /\ result = "Err" /\ row_count > BATCH_SIZE /\ errors = 1

\* C7: the age drawn for a row lies in 18..60 and the two bytes written for
\* it are ASCII decimal digits whose base-10 reading is the age drawn.
C7_AgeRoundTrips ==
    /\ pc \in {"r_render", "r_done"} => age_val \in 18..60
    /\ pc = "r_done"
         => /\ Len(age_bytes) = 2
            /\ IsDigit(age_bytes[1])
            /\ IsDigit(age_bytes[2])
            /\ (age_bytes[1] - AsciiZero) * 10 + (age_bytes[2] - AsciiZero)
                   = age_val

C7_Witness ==
    pc = "r_done" /\ age_val = 60 /\ age_bytes = <<54, 48>>

\* C8: at every size query that follows a batch nothing is held in the
\* writer's buffer, and the size seen is that of the header and of all
\* row_count rows.
C8_FlushedBeforeCheck ==
    (pc = "check" /\ row_count > 0)
        => /\ wbuf[1] = wbuf[2]
           /\ DiskIsPrefix
           /\ FileSize = wbuf[2]
           /\ \A n \in ChooseName(names) :
                 FileSize = HeaderLen + row_count * RowLen(n)

C8_Witness ==
    pc = "check" /\ row_count = 2 * BATCH_SIZE /\ FileSize > 0

\* C9: for every size_gb the computed target_size_bytes is exactly
\* size_gb * 1024^3: dividing it by 1024 three times gives size_gb back
\* without remainder, and the multiplication does not abort the run.
C9_TargetExact ==
    pc # "start"
        => /\ pc # "panicked"
           /\ LET d1 == DivSmall(target_size_bytes, KIB)
                  d2 == DivSmall(d1.quo, KIB)
                  d3 == DivSmall(d2.quo, KIB)
              IN /\ d1.rem = 0 /\ d2.rem = 0 /\ d3.rem = 0
                 /\ d3.quo = size_gb

\* C10: when no step fails, the run that has computed its target reaches
\* the completion summary (or the bound of the model); every flush makes
\* the file larger, and row_count is a multiple of BATCH_SIZE at every size
\* check.
C10_Terminates ==
    /\ [](pc = "check" => row_count % BATCH_SIZE = 0)
    /\ [][pc = "flush" => DiskSize(disk') > DiskSize(disk)]_vars
    /\ (pc = "create")
          ~> ((pc = "exit" /\ result = "Ok" /\ summary = 1) \/ pc = "capped")

C10_Witness ==
    pc = "exit" /\ result = "Ok" /\ summary = 1 /\ row_count = 2 * BATCH_SIZE

=============================================================================
